---- MODULE Spec2Model ----
(***************************************************************************)
(* Topic extraction pipeline of Genie_prototype:                           *)
(*   src/logic/topic_extract.py  TopicExtractorAgent                       *)
(*   src/core/utils.py           validate_response, flatten_hierarchy      *)
(*                                                                         *)
(* JSON values are tagged records, so that a Python type test is a test of *)
(* the tag:                                                                *)
(*   number  [t |-> "num",  n |-> k]   k counts units of 0.0001            *)
(*   string  [t |-> "str",  s |-> w]   w the sequence of its words         *)
(*   null    [t |-> "null"]                                                *)
(*   list    [t |-> "list", e |-> <<v1, ..., vn>>]                         *)
(*   object  [t |-> "obj",  f |-> r]   r a record, DOMAIN r its keys       *)
(* A Python call either returns or raises: operators that can raise return *)
(* a record whose field exc is "none" or the exception's name.             *)
(***************************************************************************)
EXTENDS Integers, Sequences, FiniteSets, TLC

VARIABLES
    docs,         \* extract_topics_async: the document segments
    i,            \* extract_topics_async: loop index of the partition loop
    start,        \* extract_topics_async: start offset of the next chunk
    tasks,        \* chunk_docs handed to each created task, by task index
    taskState,    \* per task: "none" (not created), "created", "running",
                  \*   "returned", "raised", "cancelled"
    results,      \* per task: the value process_chunk returned (None = JNull)
    pc,           \* position of extract_topics_async
    mergeCalls,   \* number of calls of _combine_topic_results
    all_results,  \* the argument of _combine_topic_results
    final_result, \* what the merge model call answered
    flat_list,    \* the value extract_topics_async returned
    arg,          \* argument of the function under test (function specs)
    res,          \* its result (function specs)
    halfUp        \* how round() resolves a decimal tie x.xx5 (see Round2)

vars == <<docs, i, start, tasks, taskState, results, pc, mergeCalls,
          all_results, final_result, flat_list, arg, res, halfUp>>

pipeVars == <<docs, i, start, tasks, taskState, results, pc, mergeCalls,
              all_results, final_result, flat_list>>

----------------------------------------------------------------------------
(* JSON values *)

JNum(k) == [t |-> "num", n |-> k]
JStr(w) == [t |-> "str", s |-> w]
JNull == [t |-> "null"]
JList(e) == [t |-> "list", e |-> e]
JObj(r) == [t |-> "obj", f |-> r]

Keys(v) == DOMAIN v.f

\* Python truthiness of a JSON value.
Truthy(v) ==
    CASE v.t = "num" -> v.n # 0
      [] v.t = "str" -> v.s # <<>>
      [] v.t = "null" -> FALSE
      [] v.t = "list" -> v.e # <<>>
      [] v.t = "obj" -> Keys(v) # {}

\* `for x in v`: the elements a for loop or a generator draws from v.  A list
\* gives its elements; a string gives its characters and a dict its keys,
\* which are strings; None and numbers are not iterable.
Iter(v) ==
    CASE v.t = "list" -> [exc |-> "none", e |-> v.e]
      [] v.t = "str" -> [exc |-> "none",
                         e |-> IF v.s = <<>> THEN <<>> ELSE <<JStr(<<"c">>)>>]
      [] v.t = "obj" -> [exc |-> "none",
                         e |-> IF Keys(v) = {} THEN <<>> ELSE <<JStr(<<"k">>)>>]
      [] OTHER -> [exc |-> "TypeError", e |-> <<>>]

----------------------------------------------------------------------------
(* round(x, 2).  x counts units of 0.0001, so two decimals are a multiple   *)
(* of 100.  Python rounds the binary double correctly: a decimal tie x.xx5  *)
(* is not a double (unless dyadic) and goes up or down with the double      *)
(* nearest to it; halfUp is that direction.                                 *)

Round2(x) ==
    LET q == x \div 100
        r == x % 100
    IN  IF r < 50 THEN 100 * q
        ELSE IF r > 50 THEN 100 * (q + 1)
        ELSE IF halfUp THEN 100 * (q + 1) ELSE 100 * q

----------------------------------------------------------------------------
(* _validate_response / validate_response *)

\* sum(x["value"] for x in children): the elements are added left to right,
\* the first failing element raises.
RECURSIVE SumValues(_, _, _)
SumValues(e, k, acc) ==
    IF k > Len(e) THEN [exc |-> "none", n |-> acc]
    ELSE IF e[k].t # "obj" THEN [exc |-> "TypeError", n |-> 0]
    ELSE IF "value" \notin Keys(e[k]) THEN [exc |-> "KeyError", n |-> 0]
    ELSE IF e[k].f.value.t # "num" THEN [exc |-> "TypeError", n |-> 0]
    ELSE SumValues(e, k + 1, acc + e[k].f.value.n)

\* CheckChildren without the rounding: the sum compared as it is.
CheckChildren_Exact(children, own) ==
    LET it == Iter(children)
        sm == SumValues(it.e, 1, 0)
    IN  IF it.exc # "none" THEN it.exc
        ELSE IF sm.exc # "none" THEN sm.exc
        ELSE IF sm.n # own THEN "False"
        ELSE "True"

\* The sum of the children's values against the node's own value, both
\* rounded: "True" (go on), "False" (return False) or the exception.
CheckChildren(children, own) ==
    LET it == Iter(children)
        sm == SumValues(it.e, 1, 0)
    IN  IF it.exc # "none" THEN it.exc
        ELSE IF sm.exc # "none" THEN sm.exc
        ELSE IF Round2(sm.n) # Round2(own) THEN "False"
        ELSE "True"

\* for sub in topic["subtopics"]: if "subsubtopics" in sub: ...
RECURSIVE ValidateSubs(_, _)
ValidateSubs(e, k) ==
    IF k > Len(e) THEN "True"
    ELSE IF "subsubtopics" \notin Keys(e[k]) THEN ValidateSubs(e, k + 1)
    ELSE LET c == CheckChildren(e[k].f.subsubtopics, e[k].f.value.n)
         IN  IF c # "True" THEN c ELSE ValidateSubs(e, k + 1)

ValidateTopic(topic) ==
    IF topic.t # "obj" THEN "TypeError"
    ELSE IF "value" \notin Keys(topic) THEN "KeyError"
    ELSE IF topic.f.value.t # "num" THEN "False"
    ELSE IF "subtopics" \notin Keys(topic) THEN "True"
    ELSE LET c == CheckChildren(topic.f.subtopics, topic.f.value.n)
         IN  IF c # "True" THEN c
             ELSE ValidateSubs(Iter(topic.f.subtopics).e, 1)

\* for topic in response["topics"]: the first topic that fails decides.
RECURSIVE ValidateTopics(_, _)
ValidateTopics(e, k) ==
    IF k > Len(e) THEN "True"
    ELSE LET c == ValidateTopic(e[k])
         IN  IF c # "True" THEN c ELSE ValidateTopics(e, k + 1)

\* The body of the try block: "True", "False" or the exception raised.
ValidateBody(response) ==
    IF response.t # "obj" THEN "TypeError"
    ELSE IF "topics" \notin Keys(response) THEN "KeyError"
    ELSE LET it == Iter(response.f.topics)
         IN  IF it.exc # "none" THEN it.exc ELSE ValidateTopics(it.e, 1)

\* _validate_response: except KeyError: return False; anything else is raised.
validate_response(response) ==
    LET b == ValidateBody(response)
    IN  IF b = "KeyError" THEN "False" ELSE b

----------------------------------------------------------------------------
(* _distribute_values_proportionally *)

\* d[k] = x on a dict: the key is added when it is missing.
SetKey(r, k, x) == (k :> x) @@ r

\* round((length / total) * value, 2): the exact quotient rounded to two
\* decimals, a decimal tie resolved as in Round2.
RoundShare(length, total, value) ==
    LET h == 100 * total
        q == (length * value) \div h
        r == (length * value) - q * h
    IN  IF 2 * r < h THEN 100 * q
        ELSE IF 2 * r > h THEN 100 * (q + 1)
        ELSE IF halfUp THEN 100 * (q + 1) ELSE 100 * q

\* sum(len(x["citation"].split()) for x in children)
RECURSIVE TotalLengths(_, _, _)
TotalLengths(e, k, acc) ==
    IF k > Len(e) THEN [exc |-> "none", n |-> acc]
    ELSE IF e[k].t # "obj" THEN [exc |-> "TypeError", n |-> 0]
    ELSE IF "citation" \notin Keys(e[k]) THEN [exc |-> "KeyError", n |-> 0]
    ELSE IF e[k].f.citation.t # "str" THEN [exc |-> "AttributeError", n |-> 0]
    ELSE TotalLengths(e, k + 1, acc + Len(e[k].f.citation.s))

\* for subsub in sub["subsubtopics"]: subsub["value"] = round(...)
RECURSIVE DistributeSubsubs(_, _, _, _)
DistributeSubsubs(e, k, total, value) ==
    IF k > Len(e) THEN [exc |-> "none", e |-> e]
    ELSE IF total = 0 THEN [exc |-> "ZeroDivisionError", e |-> e]
    ELSE LET v == RoundShare(Len(e[k].f.citation.s), total, value)
             n == JObj(SetKey(e[k].f, "value", JNum(v)))
         IN  DistributeSubsubs([e EXCEPT ![k] = n], k + 1, total, value)

\* The children list written back: only a list is mutated through its
\* elements (an empty string or dict has none).
WithElements(children, e) ==
    IF children.t = "list" THEN JList(e) ELSE children

\* for sub in topic["subtopics"]: sub["value"] = round(...), then its
\* subsubtopics.
RECURSIVE DistributeSubs(_, _, _, _)
DistributeSubs(e, k, total, value) ==
    IF k > Len(e) THEN [exc |-> "none", e |-> e]
    ELSE IF total = 0 THEN [exc |-> "ZeroDivisionError", e |-> e]
    ELSE LET v == RoundShare(Len(e[k].f.citation.s), total, value)
             f1 == SetKey(e[k].f, "value", JNum(v))
         IN  IF "subsubtopics" \notin DOMAIN f1
             THEN DistributeSubs([e EXCEPT ![k] = JObj(f1)], k + 1, total, value)
             ELSE LET it == Iter(f1.subsubtopics)
                      tl == TotalLengths(it.e, 1, 0)
                      ds == DistributeSubsubs(it.e, 1, tl.n, v)
                      f2 == SetKey(f1, "subsubtopics",
                                   WithElements(f1.subsubtopics, ds.e))
                  IN  IF it.exc # "none" THEN [exc |-> it.exc, e |-> e]
                      ELSE IF tl.exc # "none" THEN [exc |-> tl.exc, e |-> e]
                      ELSE IF ds.exc # "none" THEN [exc |-> ds.exc, e |-> e]
                      ELSE DistributeSubs([e EXCEPT ![k] = JObj(f2)],
                                          k + 1, total, value)

\* One pass of `for topic in data["topics"]`.
DistributeTopic(topic) ==
    IF topic.t # "obj" THEN [exc |-> "AttributeError", v |-> topic]
    ELSE IF "citation" \in Keys(topic) /\ topic.f.citation.t # "str"
    THEN [exc |-> "AttributeError", v |-> topic]
    ELSE IF "value" \notin Keys(topic) THEN [exc |-> "KeyError", v |-> topic]
    ELSE IF topic.f.value.t # "num" THEN [exc |-> "TypeError", v |-> topic]
    ELSE LET v == Round2(topic.f.value.n)
             f1 == SetKey(topic.f, "value", JNum(v))
         IN  IF "subtopics" \notin DOMAIN f1
             THEN [exc |-> "none", v |-> JObj(f1)]
             ELSE LET it == Iter(f1.subtopics)
                      tl == TotalLengths(it.e, 1, 0)
                      ds == DistributeSubs(it.e, 1, tl.n, v)
                      f2 == SetKey(f1, "subtopics",
                                   WithElements(f1.subtopics, ds.e))
                  IN  IF it.exc # "none" THEN [exc |-> it.exc, v |-> topic]
                      ELSE IF tl.exc # "none" THEN [exc |-> tl.exc, v |-> topic]
                      ELSE IF ds.exc # "none" THEN [exc |-> ds.exc, v |-> topic]
                      ELSE [exc |-> "none", v |-> JObj(f2)]

RECURSIVE DistributeTopics(_, _)
DistributeTopics(e, k) ==
    IF k > Len(e) THEN [exc |-> "none", e |-> e]
    ELSE LET d == DistributeTopic(e[k])
         IN  IF d.exc # "none" THEN [exc |-> d.exc, e |-> e]
             ELSE DistributeTopics([e EXCEPT ![k] = d.v], k + 1)

\* _distribute_values_proportionally(data): the tree returned, or the
\* exception raised.
distribute_values_proportionally(data) ==
    IF data.t # "obj" THEN [exc |-> "TypeError", v |-> data]
    ELSE IF "topics" \notin Keys(data) THEN [exc |-> "KeyError", v |-> data]
    ELSE LET it == Iter(data.f.topics)
             ds == DistributeTopics(it.e, 1)
         IN  IF it.exc # "none" THEN [exc |-> it.exc, v |-> data]
             ELSE IF ds.exc # "none" THEN [exc |-> ds.exc, v |-> data]
             ELSE [exc |-> "none",
                   v |-> JObj(SetKey(data.f, "topics",
                                     WithElements(data.f.topics, ds.e)))]

----------------------------------------------------------------------------
(* flatten_hierarchy *)

\* topic.get(key, "")
GetOr(topic, key) == IF key \in Keys(topic) THEN topic.f[key] ELSE JStr(<<>>)

\* TopicId without the parent's prefix.
TopicId_NoParent(parent_id, current_id) == ToString(current_id)

\* f"{parent_id}.{current_id}" if parent_id else f"{current_id}"
TopicId(parent_id, current_id) ==
    IF parent_id # "" THEN parent_id \o "." \o ToString(current_id)
    ELSE ToString(current_id)

\* FlatRecord with the parent link of every child lost.
FlatRecord_NoParent(topic, topic_id, parent_id) ==
    [id |-> topic_id, parent |-> "", name |-> topic.f.name,
     value |-> GetOr(topic, "value"), citation |-> GetOr(topic, "citation"),
     pages |-> GetOr(topic, "pages")]

FlatRecord(topic, topic_id, parent_id) ==
    [id |-> topic_id, parent |-> parent_id, name |-> topic.f.name,
     value |-> GetOr(topic, "value"), citation |-> GetOr(topic, "citation"),
     pages |-> GetOr(topic, "pages")]

\* if key in topic and topic[key]: the children list is descended into
HasChildren(topic, key) == key \in Keys(topic) /\ Truthy(topic.f[key])

RECURSIVE flatten_hierarchy(_, _)
RECURSIVE FlattenLoop(_, _, _, _)

\* for topic in data: current_id is the loop's 1-based position; flat_list
\* is the list built so far.
FlattenLoop(e, current_id, parent_id, flat) ==
    IF current_id > Len(e) THEN [exc |-> "none", e |-> flat]
    ELSE LET topic == e[current_id]
             topic_id == TopicId(parent_id, current_id)
         IN  IF topic.t # "obj" THEN [exc |-> "TypeError", e |-> <<>>]
             ELSE IF "name" \notin Keys(topic) THEN [exc |-> "KeyError", e |-> <<>>]
             ELSE LET a == IF HasChildren(topic, "subtopics")
                           THEN flatten_hierarchy(topic.f.subtopics, topic_id)
                           ELSE [exc |-> "none", e |-> <<>>]
                      b == IF HasChildren(topic, "subsubtopics")
                           THEN flatten_hierarchy(topic.f.subsubtopics, topic_id)
                           ELSE [exc |-> "none", e |-> <<>>]
                      rec == FlatRecord(topic, topic_id, parent_id)
                  IN  IF a.exc # "none" THEN a
                      ELSE IF b.exc # "none" THEN b
                      ELSE FlattenLoop(e, current_id + 1, parent_id,
                                       flat \o <<rec>> \o a.e \o b.e)

\* flatten_hierarchy(data, parent_id): the flat list, or the exception.
flatten_hierarchy(data, parent_id) ==
    IF data.t # "list" THEN [exc |-> "ValueError", e |-> <<>>]
    ELSE FlattenLoop(data.e, 1, parent_id, <<>>)

----------------------------------------------------------------------------
(* Bounds and the state shared by the specifications *)

\* The fan-out of extract_topics_async: range(8), len(docs) // 8.
FanOut == 8

\* Longest children list of a generated tree.
MaxChildren == 2

\* A key that a dict does not have.
Absent == [t |-> "absent"]

Pending == [st |-> "pending"]
Returned(v) == [st |-> "returned", v |-> v]
Raised(exc) == [st |-> "raised", exc |-> exc]

TaskIds == 0 .. (FanOut - 1)

\* No pipeline run: the state of the function specifications.
PipelineIdle ==
    /\ docs = <<>>
    /\ i = 0
    /\ start = 0
    /\ tasks = [k \in TaskIds |-> <<>>]
    /\ taskState = [k \in TaskIds |-> "none"]
    /\ results = [k \in TaskIds |-> JNull]
    /\ pc = "idle"
    /\ mergeCalls = 0
    /\ all_results = <<>>
    /\ final_result = [json |-> FALSE]
    /\ flat_list = Pending

----------------------------------------------------------------------------
(* Candidate trees of the model's answer: the schema of the prompt, with   *)
(* the weights, the list lengths and one defect as parameters.             *)

\* The "value" entry of a node: a number, or one of the defects.
ValueEntry(kind, v) ==
    CASE kind = "num" -> "value" :> JNum(v)
      [] kind = "str" -> "value" :> JStr(<<"ten">>)
      [] kind = "null" -> "value" :> JNull
      [] kind = "missing" -> <<>>

Node(nm, kind, v) == ValueEntry(kind, v) @@ [name |-> JStr(<<nm>>)]

\* n values that sum to total: total \div n each, the last takes the rest.
Shares(total, n) ==
    [k \in 1 .. n |-> IF k < n THEN total \div n ELSE total - (n - 1) * (total \div n)]

\* Weights tried for a parent, in units of 0.0001: 10, 10.0045, 33.3333, 0.
ParentWeights == {100000, 100045, 333333, 0}

\* Offsets of a children sum from its parent: none, 0.001 and 0.02.
Deltas == {0, 10, -10, 200, -200}

ValueKinds == {"num", "str", "null", "missing"}

\* A (sub)subtopics list of n nodes whose values sum to total; node j carries
\* `extra` (its own children), and node 1 the defect `kind`.
ChildList(nm, total, n, j, extra, kind) ==
    JList([k \in 1 .. n |->
        JObj((IF k = j THEN extra ELSE <<>>)
             @@ Node(nm, IF k = 1 THEN kind ELSE "num", Shares(total, n)[k]))])

\* One topic of weight w: n subtopics summing to w + d1, subtopic j with m
\* sub-subtopics summing to its weight + d2; n or m = -1 leaves the key out.
\* The defect `kind` sits at `level` (1 topic, 2 subtopic, 3 sub-subtopic).
TopicTree(w, n, d1, j, m, d2, level, kind) ==
    LET sv == IF j \in 1 .. n THEN Shares(w + d1, n)[j] ELSE 0
        subsubs == IF m < 0 \/ j = 0 THEN <<>>
                   ELSE "subsubtopics" :>
                        ChildList("leaf", sv + d2, m, 0, <<>>,
                                  IF level = 3 THEN kind ELSE "num")
        subs == IF n < 0 THEN <<>>
                ELSE "subtopics" :>
                     ChildList("sub", w + d1, n, j, subsubs,
                               IF level = 2 THEN kind ELSE "num")
    IN  JObj(subs @@ Node("topic", IF level = 1 THEN kind ELSE "num", w))

Response(topics) == JObj([topics |-> topics])

\* A second topic beside the first: sound, or with a children sum off by 0.02.
SecondTopics ==
    { TopicTree(100000, n, d1, 0, -1, 0, 0, "num") : n \in {-1, 1}, d1 \in {0, 200} }

\* One topic, or two: `other` is a topic before (place 1) or after (place 2)
\* the topic t, or Absent.
TopicList(t, other, place) ==
    IF other.t = "absent" THEN JList(<<t>>)
    ELSE IF place = 1 THEN JList(<<other, t>>) ELSE JList(<<t, other>>)

\* Answers whose "topics" is no list, or is missing.
NoTopicLists ==
    { Response(v) : v \in {JNull, JNum(5), JStr(<<>>), JStr(<<"none">>),
                           JObj(<<>>), JObj([name |-> JStr(<<"x">>)])} }
    \cup { JObj([result |-> JList(<<>>)]) }

----------------------------------------------------------------------------
(* The validator on its own: _validate_response(arg) *)

InitValidate ==
    /\ PipelineIdle
    /\ res = Pending
    /\ halfUp \in BOOLEAN
    /\ \/ \E w \in ParentWeights, n \in -1 .. MaxChildren, d1 \in Deltas,
            j \in 0 .. MaxChildren, m \in -1 .. MaxChildren, d2 \in Deltas,
            u \in SecondTopics \cup {Absent} :
               arg = Response(TopicList(TopicTree(w, n, d1, j, m, d2, 0, "num"), u, 2))
       \/ \E level \in 1 .. 3, kind \in ValueKinds \ {"num"},
            u \in SecondTopics \cup {Absent} :
               arg = Response(TopicList(
                        TopicTree(100000, MaxChildren, 0, 1, MaxChildren, 0, level, kind),
                        u, 1))
       \/ arg \in NoTopicLists \cup {Response(JList(<<>>))}

Validate ==
    /\ pc = "idle"
    /\ res = Pending
    /\ res' = LET b == validate_response(arg)
              IN  IF b \in {"True", "False"} THEN Returned(b = "True")
                  ELSE Raised(b)
    /\ UNCHANGED <<pipeVars, arg, halfUp>>

NextValidate == Validate

SpecValidate == InitValidate /\ [][NextValidate]_vars

----------------------------------------------------------------------------
(* Claims about the validator *)

NumericNode(v) == v.t = "obj" /\ "value" \in Keys(v) /\ v.f.value.t = "num"

ChildKey(level) == IF level = 1 THEN "subtopics" ELSE "subsubtopics"

\* v is a list of nodes with numeric weights, and so are the children lists
\* below it, down to level 3.
RECURSIVE NumericList(_, _)
NumericList(v, level) ==
    /\ v.t = "list"
    /\ \A k \in 1 .. Len(v.e) :
          /\ NumericNode(v.e[k])
          /\ (level < 3 /\ ChildKey(level) \in Keys(v.e[k])) =>
                NumericList(v.e[k].f[ChildKey(level)], level + 1)

\* A response whose "topics" is a list and whose weights are all numbers.
SoundResponse(r) ==
    r.t = "obj" /\ "topics" \in Keys(r) /\ NumericList(r.f.topics, 1)

\* Some node of the list v, or of the children lists below it, has a weight
\* that is missing or not a number.
RECURSIVE BadWeight(_, _)
BadWeight(v, level) ==
    /\ v.t = "list"
    /\ \E k \in 1 .. Len(v.e) :
          /\ v.e[k].t = "obj"
          /\ \/ ~NumericNode(v.e[k])
             \/ /\ level < 3
                /\ ChildKey(level) \in Keys(v.e[k])
                /\ BadWeight(v.e[k].f[ChildKey(level)], level + 1)

\* A response whose "topics" is missing or no list, or with a weight that is
\* missing or not a number.
DefectResponse(r) ==
    /\ r.t = "obj"
    /\ \/ "topics" \notin Keys(r)
       \/ r.f.topics.t # "list"
       \/ BadWeight(r.f.topics, 1)

Abs(x) == IF x < 0 THEN -x ELSE x

RECURSIVE SumOf(_)
SumOf(e) == IF e = <<>> THEN 0 ELSE Head(e).f.value.n + SumOf(Tail(e))

TopicsOf(r) == r.f.topics.e
SubsOf(T) == IF "subtopics" \in Keys(T) THEN T.f.subtopics.e ELSE <<>>
SubsubsOf(S) == IF "subsubtopics" \in Keys(S) THEN S.f.subsubtopics.e ELSE <<>>

\* The parents of a sound response that carry a children list, each with its
\* own weight and its children: topics with "subtopics", and their
\* subtopics with "subsubtopics".
Parents(r) ==
    { [own |-> TopicsOf(r)[t].f.value.n, kids |-> SubsOf(TopicsOf(r)[t])] :
        t \in { x \in 1 .. Len(TopicsOf(r)) : "subtopics" \in Keys(TopicsOf(r)[x]) } }
    \cup
    UNION { { [own |-> SubsOf(TopicsOf(r)[t])[u].f.value.n,
               kids |-> SubsubsOf(SubsOf(TopicsOf(r)[t])[u])] :
              u \in { x \in 1 .. Len(SubsOf(TopicsOf(r)[t])) :
                        "subsubtopics" \in Keys(SubsOf(TopicsOf(r)[t])[x]) } } :
            t \in 1 .. Len(TopicsOf(r)) }

\* Every children list sums to its parent's weight once both are rounded to
\* two decimals.
RoundedSumsAgree(r) ==
    \A p \in Parents(r) : Round2(SumOf(p.kids)) = Round2(p.own)

\* Every node that has children has them summing to its weight within 0.01.
WithinTolerance(r) ==
    \A p \in Parents(r) : p.kids # <<>> => Abs(SumOf(p.kids) - p.own) <= 100

\* Some node's children sum is off by exactly d (units of 0.0001).
OffBy(r, d) ==
    \E p \in Parents(r) : p.kids # <<>> /\ Abs(SumOf(p.kids) - p.own) = d

\* C5 (as amended): on a tree whose weights are all numbers, the validator
\* returns True exactly when every children list (an empty one sums to 0)
\* and its parent's weight round to the same two decimals; a children sum
\* off by 0.02 is therefore always rejected, and one off by 0.001 is accepted
\* only when it does not cross a rounding boundary.
C5_RoundedSums ==
    (SoundResponse(arg) /\ res # Pending) =>
        /\ res = Returned(RoundedSumsAgree(arg))
        /\ OffBy(arg, 200) => res = Returned(FALSE)

\* C5 witness: a tree with a children sum off by 0.001 was accepted.
C5_Witness ==
    /\ SoundResponse(arg)
    /\ res = Returned(TRUE)
    /\ OffBy(arg, 10)
    /\ \E p \in Parents(arg) : Len(p.kids) = MaxChildren

\* C5 (original): the validator accepts exactly the trees whose children sums
\* are within 0.01 of the parent's weight, for every parent weight.
C5_Tolerance ==
    (/\ SoundResponse(arg)
     /\ \A p \in Parents(arg) : p.kids # <<>>
     /\ res # Pending) =>
        res = Returned(WithinTolerance(arg))

\* C6 (original): on a response whose "topics" is missing or not a list, or
\* with a weight missing or not a number at any level, the validator
\* returns False and does not raise.
C6_FalseNeverRaises ==
    (DefectResponse(arg) /\ res # Pending) => res = Returned(FALSE)

----------------------------------------------------------------------------
(* The weight repair step on its own: _distribute_values_proportionally(arg) *)

\* Most words of a generated citation.
MaxWords == 2

Words(n) == [k \in 1 .. n |-> "w"]

\* Citation lengths of a children list; "none" leaves the list's key out.
LenSeqs == UNION { [1 .. n -> 0 .. MaxWords] : n \in 0 .. MaxChildren }
NoChildren == [has |-> FALSE, lens |-> <<>>]
LenChoices == { [has |-> TRUE, lens |-> l] : l \in LenSeqs } \cup {NoChildren}

\* Top-level weights tried, in units of 0.0001: 100, 60, 40, 60.0045,
\* 39.9955, 33.3333, 0.01.
RepairWeights == {1000000, 600000, 400000, 600045, 399955, 333333, 100}

\* The weight the model reported for a child, which the step overwrites: 7.
ReportedWeight == 70000

\* A children list with the citation lengths c.lens; node 1 carries `extra`.
CitedList(nm, c, extra) ==
    JList([k \in 1 .. Len(c.lens) |->
        JObj((IF k = 1 THEN extra ELSE <<>>)
             @@ [name |-> JStr(<<nm>>), value |-> JNum(ReportedWeight),
                 citation |-> JStr(Words(c.lens[k]))])])

\* A topic of weight w, its subtopics' citation lengths c1, and the
\* citation lengths c2 of the first subtopic's sub-subtopics.
CitedTopic(w, c1, c2) ==
    LET subsubs == IF c2.has THEN "subsubtopics" :> CitedList("leaf", c2, <<>>)
                   ELSE <<>>
        subs == IF c1.has THEN "subtopics" :> CitedList("sub", c1, subsubs)
                ELSE <<>>
    IN  JObj(subs @@ [name |-> JStr(<<"topic">>), value |-> JNum(w),
                      citation |-> JStr(Words(1))])

InitRepair ==
    /\ PipelineIdle
    /\ res = Pending
    /\ halfUp \in BOOLEAN
    /\ \/ \E w \in RepairWeights, c1 \in LenChoices, c2 \in LenChoices :
             arg = Response(JList(<<CitedTopic(w, c1, c2)>>))
       \/ \E w \in RepairWeights, v \in RepairWeights, c1 \in LenChoices :
             arg = Response(JList(<<CitedTopic(w, NoChildren, NoChildren),
                                    CitedTopic(v, c1, NoChildren)>>))
       \/ \E level \in 1 .. 3, kind \in ValueKinds \ {"num"} :
             arg = Response(JList(<<
                     TopicTree(100000, MaxChildren, 0, 1, MaxChildren, 0, level, kind)>>))
       \/ arg \in NoTopicLists \cup {Response(JList(<<>>))}

Repair ==
    /\ pc = "idle"
    /\ res = Pending
    /\ res' = LET d == distribute_values_proportionally(arg)
              IN  IF d.exc = "none" THEN Returned(d.v) ELSE Raised(d.exc)
    /\ UNCHANGED <<pipeVars, arg, halfUp>>

NextRepair == Repair

SpecRepair == InitRepair /\ [][NextRepair]_vars

----------------------------------------------------------------------------
(* Claims about the weight repair step *)

\* 100, in units of 0.0001.
Hundred == 100 * 10000

TopWeights(r) == [t \in 1 .. Len(TopicsOf(r)) |-> TopicsOf(r)[t].f.value.n]

TopSum(r) == SumOf(TopicsOf(r))

\* C7 (original): when the parsed tree's top-level weights have a positive
\* sum, the repair step leaves them summing to exactly 100, and leaves them
\* as they were when they already summed to 100.
C7_TopLevelSumsTo100 ==
    (res.st = "returned" /\ SoundResponse(arg) /\ TopSum(arg) > 0) =>
        /\ TopSum(res.v) = Hundred
        /\ TopSum(arg) = Hundred => TopWeights(res.v) = TopWeights(arg)

\* C7, second half alone: top-level weights that sum to 100 are left as
\* they were.
C7_NoOpAt100 ==
    (res.st = "returned" /\ SoundResponse(arg) /\ TopSum(arg) = Hundred) =>
        TopWeights(res.v) = TopWeights(arg)

----------------------------------------------------------------------------
(* The flattener on its own: flatten_hierarchy(arg) *)

NodeName(level, k) == JStr(<<level, ToString(k)>>)

\* A node without children: every node has a name and a citation, the odd
\* ones a value and the even ones their pages.
PlainNode(level, k) ==
    (IF k % 2 = 1 THEN "value" :> JNum(k * 10000) ELSE "pages" :> JStr(<<"p", ToString(k)>>))
    @@ [name |-> NodeName(level, k), citation |-> JStr(Words(k))]

PlainList(level, n) == JList([k \in 1 .. n |-> JObj(PlainNode(level, k))])

\* What a "subtopics" or "subsubtopics" key can hold besides a list of
\* nodes: null, 0 and "" (falsy), a string and a dict (truthy), a list
\* whose element is no object, a list whose element has no name.
NonLists == {JNull, JNum(0), JStr(<<>>), JStr(<<"none">>),
             JObj([name |-> JStr(<<"x">>)])}
BadLists == {JList(<<JStr(<<"x">>)>>), JList(<<JObj([value |-> JNum(10000)])>>)}

\* The children entries of a node: `subs` under "subtopics", `subsubs` under
\* "subsubtopics", each left out when Absent.
ChildEntries(subs, subsubs) ==
    (IF subs.t = "absent" THEN <<>> ELSE "subtopics" :> subs)
    @@ (IF subsubs.t = "absent" THEN <<>> ELSE "subsubtopics" :> subsubs)

LeafChoices ==
    { PlainList("leaf", n) : n \in 0 .. MaxChildren }
    \cup NonLists \cup BadLists \cup {Absent}

\* A list of n subtopic-level nodes of which node r has children.
MidList(n, r, subs, subsubs) ==
    JList([k \in 1 .. n |->
        JObj((IF k = r THEN ChildEntries(subs, subsubs) ELSE <<>>)
             @@ PlainNode("sub", k))])

\* The top-level list: topic 1 with the children `subs` and `subsubs`, alone
\* or with a plain topic before or after it.
TopList(subs, subsubs, place) ==
    LET t == JObj(ChildEntries(subs, subsubs) @@ PlainNode("topic", 1))
    IN  IF place = 0 THEN JList(<<t>>)
        ELSE TopicList(t, JObj(PlainNode("topic", 2)), place)

InitFlatten ==
    /\ PipelineIdle
    /\ res = Pending
    /\ halfUp = FALSE
    /\ \/ \E n \in 1 .. MaxChildren, r \in 1 .. MaxChildren,
            a \in LeafChoices, b \in LeafChoices, c \in LeafChoices,
            place \in 0 .. 2 :
               arg = TopList(MidList(n, r, a, b), c, place)
       \/ \E a \in NonLists \cup BadLists \cup {Absent, JList(<<>>)},
            c \in LeafChoices, place \in 0 .. 2 :
               arg = TopList(a, c, place)
       \/ arg \in NonLists \cup BadLists \cup {JList(<<>>)}

Flatten ==
    /\ pc = "idle"
    /\ res = Pending
    /\ res' = LET fl == flatten_hierarchy(arg, "")
              IN  IF fl.exc = "none" THEN Returned(fl.e) ELSE Raised(fl.exc)
    /\ UNCHANGED <<pipeVars, arg, halfUp>>

NextFlatten == Flatten

SpecFlatten == InitFlatten /\ [][NextFlatten]_vars

----------------------------------------------------------------------------
(* Claims about the flattener *)

\* The nodes under `key` of a node: the elements of its list, if it has one.
ListOf(node, key) ==
    IF key \in Keys(node) /\ node.f[key].t = "list" THEN node.f[key].e ELSE <<>>

\* A position in the tree as the 1-based indexes on the way down, e.g.
\* <<2, 1>>, and the dotted id that stands for it, "2.1".
RECURSIVE Dotted(_)
Dotted(path) ==
    IF path = <<>> THEN ""
    ELSE IF Len(path) = 1 THEN ToString(path[1])
    ELSE Dotted(SubSeq(path, 1, Len(path) - 1)) \o "." \o ToString(path[Len(path)])

\* The nodes of the lists e, e[k..] onward, in pre-order: each node, then the
\* nodes of its "subtopics", then those of its "subsubtopics"; with the
\* position of each, counted from 1 in every list.
RECURSIVE PreOrder(_, _, _)
PreOrder(e, k, path) ==
    IF k > Len(e) THEN <<>>
    ELSE <<[path |-> Append(path, k), node |-> e[k]]>>
         \o PreOrder(ListOf(e[k], "subtopics"), 1, Append(path, k))
         \o PreOrder(ListOf(e[k], "subsubtopics"), 1, Append(path, k))
         \o PreOrder(e, k + 1, path)

ExpectedRecord(p) ==
    [id |-> Dotted(p.path),
     parent |-> Dotted(SubSeq(p.path, 1, Len(p.path) - 1)),
     name |-> p.node.f.name,
     value |-> IF "value" \in Keys(p.node) THEN p.node.f.value ELSE JStr(<<>>),
     citation |-> IF "citation" \in Keys(p.node) THEN p.node.f.citation ELSE JStr(<<>>),
     pages |-> IF "pages" \in Keys(p.node) THEN p.node.f.pages ELSE JStr(<<>>)]

\* C8: the flat list holds one record per node, in pre-order and in the
\* array order of the input; a top-level node at position j has id "j" and
\* parent "", the j-th node of a children list of the node with id P has id
\* "P.j" and parent P; name, value, citation and pages are the node's.
C8_PreOrderIds ==
    res.st = "returned" =>
        LET po == PreOrder(arg.e, 1, <<>>)
        IN  res.v = [k \in 1 .. Len(po) |-> ExpectedRecord(po[k])]

\* C8 witness: a flattened tree of three levels with a second top-level
\* topic and a second subtopic that has children.
C8_Witness ==
    /\ res.st = "returned"
    /\ \E k \in 1 .. Len(res.v) : res.v[k].id = "1.2.1"
    /\ \E k \in 1 .. Len(res.v) : res.v[k].id = "2"

\* Names and nesting of the lists of nodes e: per node its name and the
\* same of its children, "subtopics" before "subsubtopics".
RECURSIVE ShapeOf(_)
ShapeOf(e) ==
    [k \in 1 .. Len(e) |->
        [name |-> e[k].f.name,
         kids |-> ShapeOf(ListOf(e[k], "subtopics"))
                  \o ShapeOf(ListOf(e[k], "subsubtopics"))]]

\* The records of flat whose parent field is p, in list order.
RECURSIVE ChildrenOf(_, _)
ChildrenOf(flat, p) ==
    IF flat = <<>> THEN <<>>
    ELSE (IF Head(flat).parent = p THEN <<Head(flat)>> ELSE <<>>)
         \o ChildrenOf(Tail(flat), p)

\* The tree rebuilt from the id and parent fields alone, to `fuel` levels.
RECURSIVE Rebuild(_, _, _)
Rebuild(flat, p, fuel) ==
    LET c == ChildrenOf(flat, p)
    IN  [k \in 1 .. Len(c) |->
            [name |-> c[k].name,
             kids |-> IF fuel = 0 THEN <<>> ELSE Rebuild(flat, c[k].id, fuel - 1)]]

UniqueIds(flat) ==
    \A a, b \in 1 .. Len(flat) : flat[a].id = flat[b].id => a = b

\* Some node of the lists e has nodes under both of its children keys.
RECURSIVE TwoChildLists(_)
TwoChildLists(e) ==
    \E k \in 1 .. Len(e) :
        \/ ListOf(e[k], "subtopics") # <<>> /\ ListOf(e[k], "subsubtopics") # <<>>
        \/ TwoChildLists(ListOf(e[k], "subtopics"))
        \/ TwoChildLists(ListOf(e[k], "subsubtopics"))

RoundTrip(tree, flat) ==
    /\ UniqueIds(flat)
    /\ Rebuild(flat, "", Len(flat)) = ShapeOf(tree)

\* C9 (as amended): for every tree flatten_hierarchy accepts in which no
\* node has nodes under both "subtopics" and "subsubtopics", no two records
\* share an id, and the tree rebuilt from id and parent alone has the nodes,
\* names and nesting of the original.
C9_RoundTripOneChildList ==
    (res.st = "returned" /\ ~TwoChildLists(arg.e)) => RoundTrip(arg.e, res.v)

\* C9 witness: a three-level tree with one children list per node came back.
C9_Witness ==
    /\ res.st = "returned"
    /\ ~TwoChildLists(arg.e)
    /\ \E k \in 1 .. Len(res.v) : res.v[k].id = "2.1." \o ToString(MaxChildren)

\* C9 (original): for every tree flatten_hierarchy accepts, no two records
\* share an id and the rebuilt tree equals the original.
C9_RoundTrip ==
    res.st = "returned" => RoundTrip(arg.e, res.v)

\* The argument, or the "subtopics" or "subsubtopics" value of a node at
\* some depth, is present and is not a list.
RECURSIVE NotAList(_)
NotAList(v) ==
    \/ v.t # "list"
    \/ \E k \in 1 .. Len(v.e) :
          /\ v.e[k].t = "obj"
          /\ \/ "subtopics" \in Keys(v.e[k]) /\ NotAList(v.e[k].f.subtopics)
             \/ "subsubtopics" \in Keys(v.e[k]) /\ NotAList(v.e[k].f.subsubtopics)

\* C10 (original): flatten_hierarchy raises, and returns no list, whenever
\* its argument or a children value at any depth is present but not a list.
C10_FailsFast ==
    (NotAList(arg) /\ res # Pending) => res.st = "raised"

----------------------------------------------------------------------------
(* The pipeline: extract_topics_async and its eight process_chunk tasks *)

\* Most document segments of a partition, and of a whole run.
MaxDocs == 17
MaxRunDocs == 2

None == JNull

\* A model call's answer: the call raised, or returned text that is no JSON,
\* or text that json.loads parses to v.
CallFailed == [kind |-> "error"]
NotJson == [kind |-> "text"]
Json(v) == [kind |-> "json", v |-> v]
NoAnswer == [kind |-> "none"]

EvenChildren == [has |-> TRUE, lens |-> <<1, 1>>]
EmptyCitations == [has |-> TRUE, lens |-> <<0, 0>>]
ThreeChildren == [has |-> TRUE, lens |-> <<1, 1, 1>>]

\* A per-chunk answer that passes repair and validation: one topic of
\* weight 100 with two subtopics of equal citation length.
GoodAnswer == Json(Response(JList(<<CitedTopic(Hundred, EvenChildren, NoChildren)>>)))

\* What the per-chunk model call can answer: a good tree; the call failing;
\* no JSON; JSON that is no object; an object without "topics"; subtopics
\* with empty citations (division by zero); a tree whose redistributed
\* weights (100 split in three: 33.33 each) fail validation.
ChunkAnswers ==
    {GoodAnswer, CallFailed, NotJson,
     Json(JList(<<>>)),
     Json(JObj([result |-> JList(<<>>)])),
     Json(Response(JList(<<CitedTopic(Hundred, EmptyCitations, NoChildren)>>))),
     Json(Response(JList(<<CitedTopic(Hundred, ThreeChildren, NoChildren)>>)))}

\* What the merge model call can answer: the call failing; no JSON; JSON
\* that is no object; "topics" null; "topics" missing; a sound tree; a tree
\* with a children sum off by 0.02; a tree with a "subtopics" string.
MergeAnswers ==
    {CallFailed, NotJson,
     Json(JList(<<>>)),
     Json(Response(JNull)),
     Json(JObj([result |-> JList(<<>>)])),
     GoodAnswer,
     Json(Response(JList(<<TopicTree(100000, MaxChildren, 200, 0, -1, 0, 0, "num")>>))),
     Json(Response(JList(<<JObj(ChildEntries(JStr(<<"none">>), Absent)
                                @@ PlainNode("topic", 1))>>)))}

\* A segment: its number and its page_content, None when it has no text.
Segment(k, usable) ==
    [seg |-> k, page_content |-> IF usable THEN JStr(<<"text">>) ELSE None]

\* docs[a:b], a Python slice: the bounds are clamped to the list.
Slice(s, a, b) ==
    LET lo == IF a > Len(s) THEN Len(s) ELSE a
        hi == IF b > Len(s) THEN Len(s) ELSE b
    IN  SubSeq(s, lo + 1, hi)

\* current_chunk_size without the remainder.
current_chunk_size_NoRemainder(n, k) == n \div FanOut

\* base_chunk_size + (1 if i < remainder else 0)
current_chunk_size(n, k) ==
    (n \div FanOut) + (IF k < n % FanOut THEN 1 ELSE 0)

\* " ".join([doc.page_content for doc in chunk_docs]) succeeds
Joinable(chunk_docs) ==
    \A k \in 1 .. Len(chunk_docs) : chunk_docs[k].page_content.t = "str"

\* process_chunk from the model's answer on: what the task returns.  Every
\* exception of the try block, and an invalid tree, give None.
process_chunk(answer) ==
    IF answer.kind # "json" THEN None
    ELSE LET d == distribute_values_proportionally(answer.v)
         IN  IF d.exc # "none" THEN None
             ELSE IF validate_response(d.v) = "True" THEN d.v
             ELSE None

\* [result for result in results if result is not None]
RECURSIVE NotNone(_, _)
NotNone(r, k) ==
    IF k >= FanOut THEN <<>>
    ELSE (IF r[k].t = "null" THEN <<>> ELSE <<r[k]>>) \o NotNone(r, k + 1)

\* extract_topics_async after the merge call: the flat list returned, or the
\* exception raised.
AfterMerge(answer) ==
    IF answer.kind = "error" THEN Raised("Exception")
    ELSE IF answer.kind = "text" THEN Raised("JSONDecodeError")
    ELSE IF answer.v.t # "obj" THEN Raised("AttributeError")
    ELSE IF "topics" \in Keys(answer.v) /\ answer.v.f.topics.t = "list"
    THEN LET fl == flatten_hierarchy(answer.v.f.topics, "")
         IN  IF fl.exc = "none" THEN Returned(fl.e) ELSE Raised(fl.exc)
    ELSE Returned(<<>>)

\* The state extract_topics_async starts in, with one of the document lists
\* `lists`: n segments, of which segment `bad` (if not 0) has no text.
DocLists(most) ==
    { [k \in 1 .. n |-> Segment(k, k # bad)] :
        n \in 0 .. most, bad \in 0 .. most }

RunStarts(lists) ==
    /\ docs \in lists
    /\ i = 0
    /\ start = 0
    /\ tasks = [k \in TaskIds |-> <<>>]
    /\ taskState = [k \in TaskIds |-> "none"]
    /\ results = [k \in TaskIds |-> None]
    /\ pc = "partition"
    /\ mergeCalls = 0
    /\ all_results = <<>>
    /\ final_result = NoAnswer
    /\ flat_list = Pending
    /\ arg = JNull
    /\ res = Pending

Init == RunStarts(DocLists(MaxRunDocs)) /\ halfUp \in BOOLEAN

\* One pass of `for i in range(8)`: the chunk is cut and its task created;
\* after the last pass the driver awaits gather.
CreateTask ==
    /\ pc = "partition"
    /\ i < FanOut
    /\ LET size == current_chunk_size(Len(docs), i)
       IN  /\ tasks' = [tasks EXCEPT ![i] = Slice(docs, start, start + size)]
           /\ start' = start + size
    /\ taskState' = [taskState EXCEPT ![i] = "created"]
    /\ i' = i + 1
    /\ pc' = IF i + 1 = FanOut THEN "gather" ELSE "partition"
    /\ UNCHANGED <<docs, results, mergeCalls, all_results, final_result,
                   flat_list, arg, res, halfUp>>

\* A task runs to its first await, in creation order: the join of the
\* chunk's text (outside the try), the retrieval, the model call handed to
\* the executor.
StartTask(k) ==
    /\ pc = "gather"
    /\ taskState[k] = "created"
    /\ \A j \in TaskIds : j < k => taskState[j] # "created"
    /\ \/ /\ ~Joinable(tasks[k])
          /\ taskState' = [taskState EXCEPT ![k] = "raised"]
          /\ UNCHANGED results
       \/ /\ Joinable(tasks[k])
          /\ \E retrieved \in BOOLEAN :
                IF retrieved
                THEN /\ taskState' = [taskState EXCEPT ![k] = "running"]
                     /\ UNCHANGED results
                ELSE /\ taskState' = [taskState EXCEPT ![k] = "returned"]
                     /\ results' = [results EXCEPT ![k] = None]
    /\ UNCHANGED <<docs, i, start, tasks, pc, mergeCalls, all_results,
                   final_result, flat_list, arg, res, halfUp>>

\* The model call of a task completes; the task parses, repairs and
\* validates the answer and returns.
FinishTask(k) ==
    /\ pc = "gather"
    /\ taskState[k] = "running"
    /\ \E returned \in { process_chunk(answer) : answer \in ChunkAnswers } :
          results' = [results EXCEPT ![k] = returned]
    /\ taskState' = [taskState EXCEPT ![k] = "returned"]
    /\ UNCHANGED <<docs, i, start, tasks, pc, mergeCalls, all_results,
                   final_result, flat_list, arg, res, halfUp>>

\* await asyncio.gather(*tasks) raises the exception of a task; the run
\* ends and asyncio.run cancels the tasks still waiting.
GatherRaises ==
    /\ pc = "gather"
    /\ \E k \in TaskIds : taskState[k] = "raised"
    /\ \A k \in TaskIds : taskState[k] # "created"
    /\ pc' = "raised"
    /\ flat_list' = Raised("TypeError")
    /\ taskState' = [k \in TaskIds |->
                        IF taskState[k] = "running" THEN "cancelled"
                        ELSE taskState[k]]
    /\ UNCHANGED <<docs, i, start, tasks, results, mergeCalls, all_results,
                   final_result, arg, res, halfUp>>

\* gather returns once every task returned; the results that are not None
\* are handed to _combine_topic_results in the executor.
GatherReturns ==
    /\ pc = "gather"
    /\ \A k \in TaskIds : taskState[k] = "returned"
    /\ all_results' = NotNone(results, 0)
    /\ mergeCalls' = mergeCalls + 1
    /\ pc' = "merge"
    /\ UNCHANGED <<docs, i, start, tasks, taskState, results, final_result,
                   flat_list, arg, res, halfUp>>

\* The merge call answers; json.loads, the "topics" test and the flattening
\* follow.
MergeReturns ==
    /\ pc = "merge"
    /\ \E answer \in MergeAnswers :
          /\ final_result' = answer
          /\ flat_list' = AfterMerge(answer)
          /\ pc' = IF AfterMerge(answer).st = "returned" THEN "done" ELSE "raised"
    /\ UNCHANGED <<docs, i, start, tasks, taskState, results, mergeCalls,
                   all_results, arg, res, halfUp>>

Next ==
    \/ CreateTask
    \/ \E k \in TaskIds : StartTask(k)
    \/ \E k \in TaskIds : FinishTask(k)
    \/ GatherRaises
    \/ GatherReturns
    \/ MergeReturns

Spec == Init /\ [][Next]_vars

\* The partition loop on its own, for longer document lists.
InitPartition == RunStarts(DocLists(MaxDocs)) /\ halfUp = FALSE

NextPartition == CreateTask

SpecPartition == InitPartition /\ [][NextPartition]_vars

----------------------------------------------------------------------------
(* Claims about the pipeline *)

\* The chunks of the tasks k, k+1, ... one after the other.
RECURSIVE Concat(_, _)
Concat(t, k) == IF k >= FanOut THEN <<>> ELSE t[k] \o Concat(t, k + 1)

RECURSIVE TotalSize(_, _)
TotalSize(t, k) == IF k >= FanOut THEN 0 ELSE Len(t[k]) + TotalSize(t, k + 1)

\* C1: once the partition loop is through, the N segments are cut into 8
\* contiguous groups; group k has floor(N/8)+1 segments if k < N mod 8 and
\* floor(N/8) otherwise; the sizes sum to N and differ pairwise by at most 1;
\* the groups in order make up the original list.
C1_Partition ==
    pc = "gather" =>
        LET n == Len(docs)
        IN  /\ DOMAIN tasks = 0 .. 7
            /\ \A k \in 0 .. 7 :
                  Len(tasks[k]) = IF k < n % 8 THEN (n \div 8) + 1 ELSE n \div 8
            /\ TotalSize(tasks, 0) = n
            /\ \A a, b \in 0 .. 7 : Abs(Len(tasks[a]) - Len(tasks[b])) <= 1
            /\ Concat(tasks, 0) = docs

\* C1 witness: a list longer than 8 and no multiple of 8 has been cut.
C1_Witness ==
    /\ pc = "gather"
    /\ Len(docs) > FanOut
    /\ Len(docs) % FanOut # 0
    /\ Len(tasks[FanOut - 1]) > 0

Finished == pc \in {"done", "raised"}

\* C2 (original): in every run the merge step is called exactly once, only
\* when all 8 chunk tasks have ended with a result or None, and with exactly
\* the results that are not None.
C2_MergeOnceAfterAll ==
    /\ Finished => mergeCalls = 1
    /\ mergeCalls <= 1
    /\ mergeCalls = 1 =>
          /\ \A k \in TaskIds : taskState[k] = "returned"
          /\ all_results = NotNone(results, 0)

\* The part of C2 the code keeps: the merge step is never called twice, never
\* while a task has not returned, and never with anything but the results
\* that are not None.
C2_MergeOnlyAfterBarrier ==
    /\ mergeCalls <= 1
    /\ mergeCalls = 1 =>
          /\ \A k \in TaskIds : taskState[k] = "returned"
          /\ all_results = NotNone(results, 0)

\* C3 (original): no failure of a chunk's analysis is raised out of
\* process_chunk or ends the run before the merge step: every task ends with
\* a result or None, and a run that has ended has called the merge step.
C3_ChunkFailuresContained ==
    /\ \A k \in TaskIds : taskState[k] # "raised"
    /\ Finished => mergeCalls = 1

\* The merge answer does not parse, is no object, or has no list "topics".
MergeFailed(answer) ==
    \/ answer.kind = "text"
    \/ /\ answer.kind = "json"
       /\ \/ answer.v.t # "obj"
          \/ "topics" \notin Keys(answer.v)
          \/ answer.v.f.topics.t # "list"

\* C4 (original): when the merge step fails, extract_topics_async does not
\* raise and returns an empty list.
C4_MergeFailureReturnsEmpty ==
    (Finished /\ mergeCalls = 1 /\ MergeFailed(final_result)) =>
        (pc = "done" /\ flat_list = Returned(<<>>))

----------------------------------------------------------------------------
(* Claims about the weights of the returned list and of a repaired tree *)

\* The sum of the values of the records c, which are all numbers.
RECURSIVE FlatSum(_)
FlatSum(c) == IF c = <<>> THEN 0 ELSE Head(c).value.n + FlatSum(Tail(c))

\* Every record of flat that has child records carries a number, and so do
\* its children, and their sum and its value round to the same two decimals.
FlatWeightsAgree(flat) ==
    \A k \in 1 .. Len(flat) :
        LET c == ChildrenOf(flat, flat[k].id)
        IN  c # <<>> =>
              /\ flat[k].value.t = "num"
              /\ \A j \in 1 .. Len(c) : c[j].value.t = "num"
              /\ Round2(FlatSum(c)) = Round2(flat[k].value.n)

\* C11 (original): in every flat list extract_topics_async returns, the
\* children of each record sum to the record's value within 2-decimal
\* rounding, whatever tree the merge call answered.
C11_FlatWeightInvariant ==
    (pc = "done" /\ flat_list.st = "returned") => FlatWeightsAgree(flat_list.v)

\* Every children list of the sound response r has citations whose word
\* counts total more than 0.
PositiveCitations(r) ==
    /\ SoundResponse(r)
    /\ \A t \in 1 .. Len(TopicsOf(r)) :
          "subtopics" \in Keys(TopicsOf(r)[t]) =>
             LET subs == TopicsOf(r)[t].f.subtopics.e
                 total == TotalLengths(subs, 1, 0)
             IN  /\ total.exc = "none"
                 /\ total.n > 0
                 /\ \A u \in 1 .. Len(subs) :
                       "subsubtopics" \in Keys(subs[u]) =>
                          LET below == TotalLengths(subs[u].f.subsubtopics.e, 1, 0)
                          IN  below.exc = "none" /\ below.n > 0

\* C12 (original): when every children list has a positive total citation
\* word count, the repaired tree's children sum to their parent's value
\* within 2-decimal rounding, the validator accepts it and process_chunk
\* returns it instead of None.
C12_RepairedTreeAccepted ==
    (PositiveCitations(arg) /\ res # Pending) =>
        /\ res.st = "returned"
        /\ RoundedSumsAgree(res.v)
        /\ validate_response(res.v) = "True"
        /\ process_chunk(Json(arg)) # None

====
